---- MODULE Spec2Model ----
(***************************************************************************)
(* Debounced deck-thumbnail regeneration of the lumina backend             *)
(* (backend/app/utils/deck_thumbnail.py) together with the step endpoints  *)
(* that trigger it (backend/app/api/v1/endpoints/steps.py).                *)
(*                                                                         *)
(* Everything runs on one asyncio event loop.  A coroutine runs without    *)
(* interruption between two awaits, so every action below is the code      *)
(* from the completion of one await up to the next await.                  *)
(***************************************************************************)
EXTENDS Integers, Sequences, FiniteSets, TLC

\* ------------------------------------------------------------------ bounds
\* requests served in one behaviour, one at a time (Spec) ...
MaxReqs == 4
\* ... and when two are served concurrently (SpecConc)
MaxConcReqs == 3
\* ... and when deck requests are served too (SpecDecks)
MaxDeckReqs == 3

Decks == {"d1", "d2"}
\* a request inserts at most one step and creates at most one task
StepIds == 1..MaxReqs
TaskIds == 1..MaxReqs
\* the requests the event loop serves at one time
Reqs == {"r1", "r2"}

VARIABLES
    deck,             \* Deck collection: deck id -> document (or NoDeck)
    step,             \* Step collection: step id -> deck_id of the document
    bucket,           \* object store: the object names (keys) it holds
    task,             \* asyncio tasks created by schedule_thumbnail_regeneration
    thumbnail_tasks,  \* _thumbnail_tasks: deck id -> task (0: no key)
    req,              \* HTTP requests being served
    response,         \* the response of the request that returned last
    served,           \* requests accepted so far
    deck_ids,         \* the ids Deck inserts have handed out
    related,          \* Comment, FileModel, Share collections: kind -> deck_ids stored
    export,           \* the export_deck_to_html call in progress
    cleared,          \* history: decks whose thumbnail delete_step cleared, no step inserted since
    overlay,          \* the overlay text computation of generate_deck_thumbnail
    files,            \* FileModel collection: the sizes of the uploading user's documents
    shares            \* Share collection: share id -> document (or NoShare)

vars == <<deck, step, bucket, task, thumbnail_tasks, req, response, served,
          deck_ids, related, export, cleared, overlay, files, shares>>

\* --------------------------------------------------------------- documents
\* Deck document, reduced to the fields the thumbnail pipeline touches.
\* thumbnail_url is "None" (Optional[str] default), "" or "url".
NoDeck == [order |-> <<>>, thumbnail_url |-> "missing"]
NewDeck == [order |-> <<>>, thumbnail_url |-> "None"]

\* the steps of deck d that are stored
StepsOf(d) == {s \in StepIds : step[s] = d}

\* ids that step.insert() has handed out so far
UsedStepIds == {s \in StepIds : step[s] # "unused"}

\* the model has an id left to hand out
FreeStepId == UsedStepIds # StepIds

\* the id the next step.insert() assigns
NextStepId == CHOOSE s \in StepIds : step[s] = "unused" /\ \A u \in StepIds : u < s => step[u] # "unused"

\* list.remove(x): drops the first occurrence only
RECURSIVE list_remove(_, _)
list_remove(seq, x) ==
    IF seq = <<>> THEN <<>>
    ELSE IF Head(seq) = x THEN Tail(seq)
    ELSE <<Head(seq)>> \o list_remove(Tail(seq), x)

InOrder(seq, x) == \E i \in 1..Len(seq) : seq[i] = x

\* payloads of reorder_steps: any list of known ids, unvalidated
OrderPayloads ==
    {<<>>} \cup {<<a>> : a \in UsedStepIds} \cup {<<a, b>> : a \in UsedStepIds, b \in UsedStepIds}

\* ------------------------------------------------------------------- tasks
\* positions of a coroutine inside generate_deck_thumbnail (the await it is at)
GenPcs == {"get_deck", "find_steps", "upload", "presign", "save"}
\* a task that cancel() still affects
PendingPcs == {"sleep"} \cup GenPcs

\* a task that has called the generator, wherever it ended
RanPcs == GenPcs \cup {"done", "failed", "interrupted"}

\* prev: what schedule found under the deck's key when it created the task
NoTask == [deck_id |-> "none", pc |-> "none", deck |-> NoDeck, first |-> 0, prev |-> "none"]

\* new_deck, todo, step_id_map: the locals of clone_deck
Idle == [op |-> "none", pc |-> "idle", deck_id |-> "none", step_id |-> 0,
         deck |-> NoDeck, first |-> 0,
         new_deck |-> "none", todo |-> <<>>, step_id_map |-> <<>>,
         used_mb |-> 0, share_with |-> "none", access_level |-> "none", existing_share |-> 0]

\* the collections delete_deck cascades over besides Step
RelatedKinds == {"comment", "file", "share"}

\* Share documents inserted in one behaviour
MaxShares == 3
ShareIds == 1..MaxShares
\* users a deck is shared with
Users == {"u1", "u2"}
AccessLevels == {"Editor", "Viewer"}
\* no Share document with this id yet
NoShare == [deck_id |-> "none", share_with |-> "none", access_level |-> "none"]
\* the Share document with this id was deleted
DeletedShare == [deck_id |-> "deleted", share_with |-> "none", access_level |-> "none"]

\* no overlay text being computed
NoOverlay == [pc |-> "idle", content |-> <<>>, inner_html |-> <<>>, deck_title |-> <<>>,
              text |-> <<>>, title |-> <<>>]

\* no export running
NoExport == [pc |-> "idle", html |-> <<>>, matches |-> <<>>, result |-> <<>>,
             fetched |-> <<>>, impress_js |-> "none"]

\* a key that differs from the deck's first upload to its later ones
object_name_versioned(d) ==
    <<"decks", d, IF \E k \in bucket : k[2] = d THEN "thumbnail-2.jpg" ELSE "thumbnail.jpg">>

\* the key generate_deck_thumbnail uploads under
object_name(d) == <<"decks", d, "thumbnail.jpg">>

Init ==
    /\ deck = [d \in Decks |-> IF d = "d1" THEN NewDeck ELSE NoDeck]
    /\ step = [s \in StepIds |-> "unused"]
    /\ bucket = {}
    /\ task = [t \in TaskIds |-> NoTask]
    /\ thumbnail_tasks = [d \in Decks |-> 0]
    /\ req = [r \in Reqs |-> Idle]
    /\ response = "none"
    /\ served = 0
    /\ deck_ids = {"d1"}
    /\ related = [k \in RelatedKinds |-> {"d1"}]
    /\ export = NoExport
    /\ cleared = {}
    /\ overlay = NoOverlay
    /\ files = <<>>
    /\ shares = [i \in ShareIds |-> IF i = 1 THEN [deck_id |-> "d1", share_with |-> "u1", access_level |-> "Viewer"]
                                           ELSE NoShare]

\* ------------------------------------------------- generate_deck_thumbnail
\* Each operator is one await of the generator: g is the coroutine's frame
\* (pc, the loaded deck, the first ordered step), d the deck id, ok whether
\* the awaited call succeeds.  The result is the frame at the next await, or
\* with pc "returned" / "raised".

\* a generator that goes on without the deck
gen_get_deck_blind(g, d) == [g EXCEPT !.pc = "find_steps", !.deck = deck[d]]

gen_get_deck(g, d) ==
    IF deck[d] = NoDeck
    THEN [g EXCEPT !.pc = "returned"]
    ELSE [g EXCEPT !.pc = "find_steps", !.deck = deck[d]]

\* a generator that renders the first entry of order without looking it up
gen_find_steps_head(g, d, ok) ==
    IF StepsOf(d) = {} \/ g.deck.order = <<>>
    THEN [g EXCEPT !.pc = "returned"]
    ELSE IF ~ok
    THEN [g EXCEPT !.pc = "raised"]
    ELSE [g EXCEPT !.pc = "upload", !.first = Head(g.deck.order)]

gen_find_steps(g, d, ok) ==
    LET steps == StepsOf(d)
        InSteps(s) == s \in steps
        ordered_steps == SelectSeq(g.deck.order, InSteps)
    IN  IF steps = {} \/ ordered_steps = <<>>
        THEN [g EXCEPT !.pc = "returned"]
        ELSE IF ~ok
        THEN [g EXCEPT !.pc = "raised"]
        ELSE [g EXCEPT !.pc = "upload", !.first = Head(ordered_steps)]

gen_upload(g, d, ok) ==
    IF ok THEN [g EXCEPT !.pc = "presign", !.first = 0]
    ELSE [g EXCEPT !.pc = "raised"]

\* get_presigned_url swallows its exception and returns ""
get_presigned_url(ok) == IF ok THEN "url" ELSE ""

gen_presign(g, d, ok) ==
    [g EXCEPT !.pc = "save", !.deck.thumbnail_url = get_presigned_url(ok)]

gen_save(g, d, ok) ==
    IF ok THEN [g EXCEPT !.pc = "returned"]
    ELSE [g EXCEPT !.pc = "raised"]

generate_deck_thumbnail(g, d, ok) ==
    CASE g.pc = "get_deck" -> gen_get_deck(g, d)
      [] g.pc = "find_steps" -> gen_find_steps(g, d, ok)
      [] g.pc = "upload" -> gen_upload(g, d, ok)
      [] g.pc = "presign" -> gen_presign(g, d, ok)
      [] g.pc = "save" -> gen_save(g, d, ok)

\* what the awaited call wrote: put_object under the per-deck key ...
UploadedBucket(g, d, ok) ==
    IF g.pc = "upload" /\ ok THEN bucket \cup {object_name(d)} ELSE bucket

\* ... and deck.save(), which writes the whole loaded document back
SavedDeck(g, d, ok) ==
    IF g.pc = "save" /\ ok THEN [deck EXCEPT ![d] = g.deck] ELSE deck

\* ------------------------------------------- schedule_thumbnail_regeneration
\* the id of the task asyncio.create_task() returns next
NextTask == CHOOSE t \in TaskIds : task[t].pc = "none" /\ \A u \in TaskIds : u < t => task[u].pc # "none"

\* a schedule that forgets to cancel the task it replaces
cancel_not(tk) == tk

\* a cancel() that stops a task only while it sleeps
cancel_sleeping_only(tk) == IF tk.pc = "sleep" THEN [tk EXCEPT !.pc = "cancelled"] ELSE tk

\* Task.cancel(): CancelledError is thrown into the coroutine at the await it
\* is suspended in, wherever that is; a task that is done is left alone.
cancel(tk) ==
    IF tk.pc = "sleep" THEN [tk EXCEPT !.pc = "cancelled"]
    ELSE IF tk.pc \in GenPcs THEN [tk EXCEPT !.pc = "interrupted", !.deck = NoDeck, !.first = 0]
    ELSE tk

\* a schedule that stores the new task before it cancels the table's entry
ScheduledTasks_cancel_new(d) ==
    [task EXCEPT ![NextTask] = [NoTask EXCEPT !.deck_id = d, !.pc = "cancelled"]]

\* a schedule that cancels the tasks of every deck in the table
ScheduledTasks_cancel_all(d) ==
    [t \in TaskIds |->
        IF t = NextTask THEN [NoTask EXCEPT !.deck_id = d, !.pc = "sleep"]
        ELSE IF \E e \in Decks : thumbnail_tasks[e] = t THEN cancel(task[t])
        ELSE task[t]]

\* a schedule that starts no timer when the table's task has already ended
ScheduledTasks_skip_ended(d) ==
    LET old == thumbnail_tasks[d]
    IN  IF old # 0 /\ task[old].pc \notin PendingPcs
        THEN task
        ELSE [task EXCEPT ![NextTask] = [NoTask EXCEPT !.deck_id = d, !.pc = "sleep"]]

\* the task table and the tasks after schedule_thumbnail_regeneration(d):
\* no await between the membership test, cancel(), create_task() and the store
ScheduledTasks(d) ==
    LET old == thumbnail_tasks[d]
        cancelled == IF old # 0 THEN [task EXCEPT ![old] = cancel(task[old])] ELSE task
    IN  [cancelled EXCEPT ![NextTask] =
            [NoTask EXCEPT !.deck_id = d, !.pc = "sleep",
                           !.prev = IF old = 0 THEN "none"
                                    ELSE IF task[old].pc = "sleep" THEN "sleep"
                                    ELSE IF task[old].pc \in GenPcs THEN "running"
                                    ELSE "ended"]]

\* a schedule that does not record the task it created
ScheduledTable_forget(d) == thumbnail_tasks

ScheduledTable(d) == [thumbnail_tasks EXCEPT ![d] = NextTask]

\* A cancelled task that was awaiting asyncio.to_thread(upload_file) or
\* deck.save(): the call already handed to the worker thread is not recalled,
\* so its write lands (landed) or not.
InFlightBucket(d, landed) ==
    LET old == thumbnail_tasks[d]
    IN  IF old # 0 /\ landed /\ task[old].pc = "upload"
        THEN bucket \cup {object_name(d)} ELSE bucket

InFlightDeck(base, d, landed) ==
    LET old == thumbnail_tasks[d]
    IN  IF old # 0 /\ landed /\ task[old].pc = "save"
        THEN [base EXCEPT ![d] = task[old].deck] ELSE base

schedule_thumbnail_regeneration(base, d, landed) ==
    /\ task' = ScheduledTasks(d)
    /\ thumbnail_tasks' = ScheduledTable(d)
    /\ bucket' = InFlightBucket(d, landed)
    /\ deck' = InFlightDeck(base, d, landed)

\* -------------------------------------------------------------- regenerate
\* asyncio.sleep(delay) is over: the task calls the generator
regenerate_sleep(t) ==
    /\ task[t].pc = "sleep"
    /\ task' = [task EXCEPT ![t].pc = "get_deck"]
    /\ UNCHANGED <<deck, step, bucket, thumbnail_tasks, req, response, served>>
    /\ UNCHANGED <<deck_ids, related, export, overlay, files, shares>>
    /\ UNCHANGED cleared

\* the task as it ends: generator returned (the del runs) or raised (it does not)
Ended(g) ==
    [g EXCEPT !.pc = IF g.pc = "returned" THEN "done" ELSE "failed",
              !.deck = NoDeck, !.first = 0]

regenerate_generate(t, ok) ==
    LET d == task[t].deck_id
        g == generate_deck_thumbnail(task[t], d, ok)
    IN  /\ task[t].pc \in GenPcs
        /\ deck' = SavedDeck(task[t], d, ok)
        /\ bucket' = UploadedBucket(task[t], d, ok)
        /\ task' = [task EXCEPT ![t] = IF g.pc \in {"returned", "raised"} THEN Ended(g) ELSE g]
        /\ thumbnail_tasks' =
              IF g.pc = "returned" /\ thumbnail_tasks[d] # 0
              THEN [thumbnail_tasks EXCEPT ![d] = 0]
              ELSE thumbnail_tasks
        /\ UNCHANGED <<step, req, response, served>>
        /\ UNCHANGED <<deck_ids, related, export, overlay, files, shares>>
        /\ UNCHANGED cleared

\* ---------------------------------------------------------------- requests
Finish(r, res) == req' = [req EXCEPT ![r] = Idle] /\ response' = res

\* a request arrives and a handler coroutine is started for it
Accept(r) ==
    /\ req[r].pc = "idle" /\ served < MaxReqs /\ served' = served + 1
    /\ UNCHANGED <<deck_ids, related, export, overlay, files, shares>>
    /\ UNCHANGED cleared

Continue(r, pc) == req' = [req EXCEPT ![r].pc = pc] /\ UNCHANGED response

\* on to an await after which the loaded deck is not used again
Leave(r, pc) == req' = [req EXCEPT ![r].pc = pc, ![r].deck = NoDeck] /\ UNCHANGED response

Begin(r, op, d, s, doc, pc) ==
    /\ req' = [req EXCEPT ![r] = [Idle EXCEPT !.op = op, !.pc = pc, !.deck_id = d,
                                              !.step_id = s, !.deck = doc]]
    /\ UNCHANGED response

\* create_step: Deck.get, the access check
create_step_get(r, d, authorized) ==
    /\ Accept(r)
    /\ IF deck[d] = NoDeck THEN Finish(r, "404")
              ELSE IF ~authorized THEN Finish(r, "403")
              ELSE Begin(r, "create_step", d, 0, deck[d], "insert")
    /\ UNCHANGED <<deck, step, bucket, task, thumbnail_tasks>>

\* step.insert(), then deck.order.append
create_step_insert(r) ==
    /\ req[r].op = "create_step" /\ req[r].pc = "insert"
    /\ FreeStepId
    /\ step' = [step EXCEPT ![NextStepId] = req[r].deck_id]
    /\ req' = [req EXCEPT ![r].pc = "save_deck", ![r].step_id = NextStepId,
                          ![r].deck.order = Append(req[r].deck.order, NextStepId)]
    /\ UNCHANGED response
    /\ UNCHANGED <<deck, bucket, task, thumbnail_tasks>>
    /\ UNCHANGED <<served, deck_ids, related, export, overlay, files, shares>>
    /\ cleared' = cleared \ {req[r].deck_id}

\* deck.save(), then the inline generation (first step) or the schedule call
create_step_save(r, landed) ==
    LET d == req[r].deck_id
        saved == [deck EXCEPT ![d] = req[r].deck]
    IN  /\ req[r].op = "create_step" /\ req[r].pc = "save_deck"
        /\ IF Len(req[r].deck.order) = 1
           THEN /\ deck' = saved
                /\ Continue(r, "get_deck")
                /\ UNCHANGED <<bucket, task, thumbnail_tasks>>
           ELSE /\ schedule_thumbnail_regeneration(saved, d, landed)
                /\ Finish(r, "ok")
        /\ UNCHANGED step
        /\ UNCHANGED <<served, deck_ids, related, export, overlay, files, shares>>
        /\ UNCHANGED cleared

\* await generate_deck_thumbnail(deck_id) inside the request
create_step_generate(r, ok) ==
    LET d == req[r].deck_id
        g == generate_deck_thumbnail(req[r], d, ok)
    IN  /\ req[r].op = "create_step" /\ req[r].pc \in GenPcs
        /\ deck' = SavedDeck(req[r], d, ok)
        /\ bucket' = UploadedBucket(req[r], d, ok)
        /\ IF g.pc = "returned" THEN Finish(r, "ok")
                  ELSE IF g.pc = "raised" THEN Finish(r, "500")
                  ELSE req' = [req EXCEPT ![r] = g] /\ UNCHANGED response
        /\ UNCHANGED <<step, task, thumbnail_tasks>>
        /\ UNCHANGED <<served, deck_ids, related, export, overlay, files, shares>>
        /\ UNCHANGED cleared

\* reorder_steps: Deck.get, the access check
reorder_steps_get(r, d, authorized) ==
    /\ Accept(r)
    /\ IF deck[d] = NoDeck THEN Finish(r, "404")
              ELSE IF ~authorized THEN Finish(r, "403")
              ELSE Begin(r, "reorder_steps", d, 0, deck[d], "save_deck")
    /\ UNCHANGED <<deck, step, bucket, task, thumbnail_tasks>>

\* deck.order = payload.step_ids; deck.save(); schedule
reorder_steps_save(r, step_ids, landed) ==
    LET d == req[r].deck_id
        saved == [deck EXCEPT ![d] = [req[r].deck EXCEPT !.order = step_ids]]
    IN  /\ req[r].op = "reorder_steps" /\ req[r].pc = "save_deck"
        /\ schedule_thumbnail_regeneration(saved, d, landed)
        /\ Finish(r, "ok")
        /\ UNCHANGED step
        /\ UNCHANGED <<served, deck_ids, related, export, overlay, files, shares>>
        /\ UNCHANGED cleared

\* update_step_data: Step.get
update_step_data_get(r, s) ==
    /\ Accept(r)
    /\ IF step[s] \notin Decks THEN Finish(r, "404")
              ELSE Begin(r, "update_step_data", step[s], s, NoDeck, "load_deck")
    /\ UNCHANGED <<deck, step, bucket, task, thumbnail_tasks>>

\* Deck.get(step.deck_id); deck.owner_id on a missing deck raises
update_step_data_deck(r, authorized) ==
    /\ req[r].op = "update_step_data" /\ req[r].pc = "load_deck"
    /\ IF deck[req[r].deck_id] = NoDeck THEN Finish(r, "crash")
              ELSE IF ~authorized THEN Finish(r, "403")
              ELSE Continue(r, "save_step")
    /\ UNCHANGED <<deck, step, bucket, task, thumbnail_tasks>>
    /\ UNCHANGED <<served, deck_ids, related, export, overlay, files, shares>>
    /\ UNCHANGED cleared

\* step.save() (an upsert of the loaded step), then schedule
update_step_data_save(r, landed) ==
    /\ req[r].op = "update_step_data" /\ req[r].pc = "save_step"
    /\ step' = [step EXCEPT ![req[r].step_id] = req[r].deck_id]
    /\ schedule_thumbnail_regeneration(deck, req[r].deck_id, landed)
    /\ Finish(r, "ok")
    /\ UNCHANGED <<served, deck_ids, related, export, overlay, files, shares>>
    /\ cleared' = cleared \ {req[r].deck_id}

\* delete_step: Step.get
delete_step_get(r, s) ==
    /\ Accept(r)
    /\ IF step[s] \notin Decks THEN Finish(r, "404")
              ELSE Begin(r, "delete_step", step[s], s, NoDeck, "load_deck")
    /\ UNCHANGED <<deck, step, bucket, task, thumbnail_tasks>>

\* Deck.get, the access check, deck.order.remove when the id is listed
delete_step_deck(r, authorized) ==
    LET d == req[r].deck_id
        s == req[r].step_id
    IN  /\ req[r].op = "delete_step" /\ req[r].pc = "load_deck"
        /\ IF deck[d] = NoDeck THEN Finish(r, "crash")
                  ELSE IF ~authorized THEN Finish(r, "403")
                  ELSE IF InOrder(deck[d].order, s)
                  THEN /\ req' = [req EXCEPT ![r].pc = "save_deck",
                                   ![r].deck = [deck[d] EXCEPT !.order = list_remove(deck[d].order, s)]]
                       /\ UNCHANGED response
                  ELSE Leave(r, "delete")
        /\ UNCHANGED <<deck, step, bucket, task, thumbnail_tasks>>
        /\ UNCHANGED <<served, deck_ids, related, export, overlay, files, shares>>
        /\ UNCHANGED cleared

\* deck.save(); steps remain: schedule; none: thumbnail_url = None
delete_step_save(r, landed) ==
    LET d == req[r].deck_id
        saved == [deck EXCEPT ![d] = req[r].deck]
    IN  /\ req[r].op = "delete_step" /\ req[r].pc = "save_deck"
        /\ IF Len(req[r].deck.order) > 0
           THEN /\ schedule_thumbnail_regeneration(saved, d, landed)
                /\ Leave(r, "delete")
           ELSE /\ deck' = saved
                /\ req' = [req EXCEPT ![r].pc = "clear", ![r].deck.thumbnail_url = "None"]
                /\ UNCHANGED response
                /\ UNCHANGED <<bucket, task, thumbnail_tasks>>
        /\ UNCHANGED step
        /\ UNCHANGED <<served, deck_ids, related, export, overlay, files, shares>>
        /\ UNCHANGED cleared

\* the second deck.save() of the no-steps branch
delete_step_clear(r) ==
    /\ req[r].op = "delete_step" /\ req[r].pc = "clear"
    /\ deck' = [deck EXCEPT ![req[r].deck_id] = req[r].deck]
    /\ Leave(r, "delete")
    /\ UNCHANGED <<step, bucket, task, thumbnail_tasks>>
    /\ UNCHANGED <<served, deck_ids, related, export, overlay, files, shares>>
    /\ cleared' = cleared \cup {req[r].deck_id}

\* step.delete()
delete_step_delete(r) ==
    /\ req[r].op = "delete_step" /\ req[r].pc = "delete"
    /\ step' = [step EXCEPT ![req[r].step_id] = "deleted"]
    /\ Finish(r, "ok")
    /\ UNCHANGED <<deck, bucket, task, thumbnail_tasks>>
    /\ UNCHANGED <<served, deck_ids, related, export, overlay, files, shares>>
    /\ UNCHANGED cleared

\* ------------------------------------------------------------ deck requests
\* duplicate_step: Step.get
duplicate_step_get(r, s) ==
    /\ Accept(r)
    /\ IF step[s] \notin Decks THEN Finish(r, "404")
              ELSE Begin(r, "duplicate_step", step[s], s, NoDeck, "load_deck")
    /\ UNCHANGED <<deck, step, bucket, task, thumbnail_tasks>>

\* Deck.get(step.deck_id), the access check
duplicate_step_deck(r, authorized) ==
    LET d == req[r].deck_id
    IN  /\ req[r].op = "duplicate_step" /\ req[r].pc = "load_deck"
        /\ IF deck[d] = NoDeck THEN Finish(r, "crash")
                  ELSE IF ~authorized THEN Finish(r, "403")
                  ELSE req' = [req EXCEPT ![r].pc = "insert", ![r].deck = deck[d]] /\ UNCHANGED response
        /\ UNCHANGED <<deck, step, bucket, task, thumbnail_tasks>>
        /\ UNCHANGED <<served, deck_ids, related, export, overlay, files, shares>>
        /\ UNCHANGED cleared

\* new_step.insert(), then deck.order.append
duplicate_step_insert(r) ==
    /\ req[r].op = "duplicate_step" /\ req[r].pc = "insert"
    /\ FreeStepId
    /\ step' = [step EXCEPT ![NextStepId] = req[r].deck_id]
    /\ req' = [req EXCEPT ![r].pc = "save_deck", ![r].step_id = NextStepId,
                          ![r].deck.order = Append(req[r].deck.order, NextStepId)]
    /\ UNCHANGED response
    /\ UNCHANGED <<deck, bucket, task, thumbnail_tasks>>
    /\ UNCHANGED <<served, deck_ids, related, export, overlay, files, shares>>
    /\ cleared' = cleared \ {req[r].deck_id}

\* deck.save(); no regeneration is scheduled
duplicate_step_save(r) ==
    /\ req[r].op = "duplicate_step" /\ req[r].pc = "save_deck"
    /\ deck' = [deck EXCEPT ![req[r].deck_id] = req[r].deck]
    /\ Finish(r, "ok")
    /\ UNCHANGED <<step, bucket, task, thumbnail_tasks>>
    /\ UNCHANGED <<served, deck_ids, related, export, overlay, files, shares>>
    /\ UNCHANGED cleared

\* update_deck: Deck.get, owner check
update_deck_get(r, d, authorized) ==
    /\ Accept(r)
    /\ IF deck[d] = NoDeck THEN Finish(r, "404")
              ELSE IF ~authorized THEN Finish(r, "403")
              ELSE Begin(r, "update_deck", d, 0, deck[d], "save_deck")
    /\ UNCHANGED <<deck, step, bucket, task, thumbnail_tasks>>

\* deck.order = payload.order when the payload has one; deck.save()
update_deck_save(r, has_order, order) ==
    LET d == req[r].deck_id
        doc == IF has_order THEN [req[r].deck EXCEPT !.order = order] ELSE req[r].deck
    IN  /\ req[r].op = "update_deck" /\ req[r].pc = "save_deck"
        /\ deck' = [deck EXCEPT ![d] = doc]
        /\ Finish(r, "ok")
        /\ UNCHANGED <<step, bucket, task, thumbnail_tasks>>
        /\ UNCHANGED <<served, deck_ids, related, export, overlay, files, shares>>
        /\ UNCHANGED cleared

\* delete_deck: Deck.get, owner check
delete_deck_get(r, d, authorized) ==
    /\ Accept(r)
    /\ IF deck[d] = NoDeck THEN Finish(r, "404")
              ELSE IF ~authorized THEN Finish(r, "403")
              ELSE Begin(r, "delete_deck", d, 0, NoDeck, "delete_steps")
    /\ UNCHANGED <<deck, step, bucket, task, thumbnail_tasks>>

\* Step.find({"deck_id": deck_id}).delete()
delete_deck_steps(r) ==
    /\ req[r].op = "delete_deck" /\ req[r].pc = "delete_steps"
    /\ step' = [s \in StepIds |-> IF step[s] = req[r].deck_id THEN "deleted" ELSE step[s]]
    /\ Continue(r, "delete_comments")
    /\ UNCHANGED <<deck, bucket, task, thumbnail_tasks>>
    /\ UNCHANGED <<served, deck_ids, related, export, overlay, files, shares>>
    /\ UNCHANGED cleared

\* Comment.find({"deck_id": deck_id}).delete()
delete_deck_comments(r) ==
    /\ req[r].op = "delete_deck" /\ req[r].pc = "delete_comments"
    /\ related' = [related EXCEPT !["comment"] = @ \ {req[r].deck_id}]
    /\ Continue(r, "find_files")
    /\ UNCHANGED <<deck, step, bucket, task, thumbnail_tasks>>
    /\ UNCHANGED <<served, deck_ids, export, overlay, files, shares>>
    /\ UNCHANGED cleared

\* FileModel.find({"deck_id": deck_id}).to_list()
delete_deck_files(r) ==
    /\ req[r].op = "delete_deck" /\ req[r].pc = "find_files"
    /\ Continue(r, IF req[r].deck_id \in related["file"] THEN "delete_file" ELSE "delete_shares")
    /\ UNCHANGED <<deck, step, bucket, task, thumbnail_tasks>>
    /\ UNCHANGED <<served, deck_ids, related, export, overlay, files, shares>>
    /\ UNCHANGED cleared

\* delete_deck_file(...), file.delete() for the file found
delete_deck_file(r) ==
    /\ req[r].op = "delete_deck" /\ req[r].pc = "delete_file"
    /\ related' = [related EXCEPT !["file"] = @ \ {req[r].deck_id}]
    /\ files' = SelectSeq(files, LAMBDA f : f.deck_id # req[r].deck_id)
    /\ Continue(r, "delete_shares")
    /\ UNCHANGED <<deck, step, bucket, task, thumbnail_tasks>>
    /\ UNCHANGED <<served, deck_ids, export, overlay, shares>>
    /\ UNCHANGED cleared

\* Share.find({"deck_id": deck_id}).delete()
delete_deck_shares(r) ==
    /\ req[r].op = "delete_deck" /\ req[r].pc = "delete_shares"
    /\ related' = [related EXCEPT !["share"] = @ \ {req[r].deck_id}]
    /\ shares' = [i \in ShareIds |-> IF shares[i].deck_id = req[r].deck_id THEN DeletedShare
                                                                          ELSE shares[i]]
    /\ Continue(r, "delete_deck")
    /\ UNCHANGED <<deck, step, bucket, task, thumbnail_tasks>>
    /\ UNCHANGED <<served, deck_ids, export, overlay, files>>
    /\ UNCHANGED cleared

\* deck.delete(), return
delete_deck_delete(r) ==
    /\ req[r].op = "delete_deck" /\ req[r].pc = "delete_deck"
    /\ deck' = [deck EXCEPT ![req[r].deck_id] = NoDeck]
    /\ Finish(r, "ok")
    /\ UNCHANGED <<step, bucket, task, thumbnail_tasks>>
    /\ UNCHANGED <<served, deck_ids, related, export, overlay, files, shares>>
    /\ UNCHANGED cleared

\* the id new_deck.insert() assigns
NextDeckId == CHOOSE d \in Decks : d \notin deck_ids

\* Step.find(...).to_list(): the steps of deck d in the order of their ids
RECURSIVE to_list(_)
to_list(ids) ==
    IF ids = {} THEN <<>>
    ELSE LET m == CHOOSE x \in ids : \A y \in ids : x <= y
         IN  <<m>> \o to_list(ids \ {m})

\* step_id_map as a list of <<old id, new id>>
InMap(map, old) == \E i \in 1..Len(map) : map[i][1] = old
MapGet(map, old) == map[CHOOSE i \in 1..Len(map) : map[i][1] = old][2]

\* [step_id_map.get(old_id, old_id) for old_id in deck.order if old_id in step_id_map]
RECURSIVE cloned_order(_, _)
cloned_order(order, map) ==
    IF order = <<>> THEN <<>>
    ELSE IF InMap(map, Head(order))
    THEN <<MapGet(map, Head(order))>> \o cloned_order(Tail(order), map)
    ELSE cloned_order(Tail(order), map)

\* clone_deck: Deck.get; there is no access check
clone_deck_get(r, d) ==
    /\ Accept(r)
    /\ deck_ids # Decks
    /\ IF deck[d] = NoDeck THEN Finish(r, "404")
              ELSE Begin(r, "clone_deck", d, 0, deck[d], "insert_deck")
    /\ UNCHANGED <<deck, step, bucket, task, thumbnail_tasks>>

\* new_deck.insert()
clone_deck_insert(r) ==
    /\ req[r].op = "clone_deck" /\ req[r].pc = "insert_deck"
    /\ deck_ids # Decks
    /\ deck' = [deck EXCEPT ![NextDeckId] = NewDeck]
    /\ deck_ids' = deck_ids \cup {NextDeckId}
    /\ req' = [req EXCEPT ![r].pc = "list_steps", ![r].new_deck = NextDeckId]
    /\ UNCHANGED response
    /\ UNCHANGED <<step, bucket, task, thumbnail_tasks>>
    /\ UNCHANGED <<served, related, export, overlay, files, shares>>
    /\ UNCHANGED cleared

\* Step.find({"deck_id": deck_id}).to_list()
clone_deck_steps(r) ==
    LET steps == to_list(StepsOf(req[r].deck_id))
    IN  /\ req[r].op = "clone_deck" /\ req[r].pc = "list_steps"
        /\ req' = [req EXCEPT ![r].pc = IF steps = <<>> THEN "save_clone" ELSE "insert_step",
                              ![r].todo = steps]
        /\ UNCHANGED response
        /\ UNCHANGED <<deck, step, bucket, task, thumbnail_tasks>>
        /\ UNCHANGED <<served, deck_ids, related, export, overlay, files, shares>>
        /\ UNCHANGED cleared

\* one turn of the loop: new_step.insert(), step_id_map[old] = new
clone_deck_step(r) ==
    LET old == Head(req[r].todo)
        rest == Tail(req[r].todo)
    IN  /\ req[r].op = "clone_deck" /\ req[r].pc = "insert_step"
        /\ FreeStepId
        /\ step' = [step EXCEPT ![NextStepId] = req[r].new_deck]
        /\ req' = [req EXCEPT ![r].pc = IF rest = <<>> THEN "save_clone" ELSE "insert_step",
                              ![r].todo = rest,
                              ![r].step_id_map = Append(req[r].step_id_map, <<old, NextStepId>>)]
        /\ UNCHANGED response
        /\ UNCHANGED <<deck, bucket, task, thumbnail_tasks>>
        /\ UNCHANGED <<served, deck_ids, related, export, overlay, files, shares>>
        /\ cleared' = cleared \ {req[r].new_deck}

\* new_deck.order = the mapped ids; new_deck.save()
clone_deck_save(r) ==
    /\ req[r].op = "clone_deck" /\ req[r].pc = "save_clone"
    /\ deck' = [deck EXCEPT ![req[r].new_deck] =
                   [NewDeck EXCEPT !.order = cloned_order(req[r].deck.order, req[r].step_id_map)]]
    /\ Finish(r, "ok")
    /\ UNCHANGED <<step, bucket, task, thumbnail_tasks>>
    /\ UNCHANGED <<served, deck_ids, related, export, overlay, files, shares>>
    /\ UNCHANGED cleared

\* ------------------------------------------------------ export_deck_to_html
\* An image URL is the list of its segments, host first.  The model exports
\* a deck of one step whose inner_html is a list of <img> tags that differ in
\* their src only, so a tag is its src and two tags with one src are the same
\* text.
AssetHost == "minio"
Srcs ==
    { <<"minio", "lumina", "decks", "a.png">>,
      <<"cdn", "img", "b.png">>,
      <<"cdn", "decks", "c.png">>,
      <<"cdn", "MINIO", "d.png">> }

\* str.lower() on a segment
lower(seg) == IF seg = "MINIO" THEN "minio" ELSE seg

\* 'minio' in src.lower() or 'decks' in src
from_minio(src) ==
    \/ \E i \in 1..Len(src) : lower(src[i]) = "minio"
    \/ \E i \in 1..Len(src) : src[i] = "decks"

\* the bytes in a KB, and the size in KB below which an image is inlined
KB == 1024
InlineLimitKB == 100

\* sizes of a fetched image, around the limit
Sizes == {1, InlineLimitKB * KB - 1, InlineLimitKB * KB, InlineLimitKB * KB + 1}

\* outcomes of client.get: a status, an exception, a timeout
Outcomes == {"200", "404", "exception", "timeout"}

\* the pieces of text an exported step is made of
Img(src) == [kind |-> "img", src |-> src]
Data(src) == [kind |-> "data", src |-> src]
LargeComment == [kind |-> "comment", src |-> <<>>]

\* replace_img: the text that replaces the tag.  len(img_data) / 1024 < 100
\* is exact in floating point, so it is size < 100 * 1024.
replace_img(src, outcome, size) ==
    IF from_minio(src) /\ outcome = "200"
    THEN IF size < InlineLimitKB * KB
         THEN <<Data(src)>>
         ELSE <<Img(src), LargeComment>>
    ELSE <<Img(src)>>

\* str.replace(old, new, 1): the first occurrence of the tag is replaced
RECURSIVE replace_first(_, _, _)
replace_first(text, old, new) ==
    IF text = <<>> THEN <<>>
    ELSE IF Head(text) = old THEN new \o Tail(text)
    ELSE <<Head(text)>> \o replace_first(Tail(text), old, new)

\* images in one step's content
MaxImgs == 2

Htmls == UNION {[1..n -> Srcs] : n \in 1..MaxImgs}

\* export_deck_to_html up to re.finditer: the matches are the tags of html
export_begin(html) ==
    /\ export.pc = "idle"
    /\ export' = [NoExport EXCEPT !.pc = "images", !.html = html, !.matches = html,
                                  !.result = [i \in 1..Len(html) |-> Img(html[i])]]
    /\ UNCHANGED <<deck, step, bucket, task, thumbnail_tasks, req, response, served,
                   deck_ids, related, cleared, overlay, files, shares>>

\* one turn of process_images' loop: replace_img(match), then result.replace;
\* a tag that is not fetched has outcome "none"
export_replace_img(outcome, size) ==
    LET src == Head(export.matches)
        rest == Tail(export.matches)
        replacement == replace_img(src, outcome, size)
    IN  /\ export.pc = "images"
        /\ from_minio(src) <=> outcome # "none"
        /\ outcome # "200" => size = 1
        /\ export' = [export EXCEPT
                         !.pc = IF rest = <<>> THEN "script" ELSE "images",
                         !.matches = rest,
                         !.result = replace_first(export.result, Img(src), replacement),
                         !.fetched = Append(export.fetched, [outcome |-> outcome, size |-> size])]
        /\ UNCHANGED <<deck, step, bucket, task, thumbnail_tasks, req, response, served,
                       deck_ids, related, cleared, overlay, files, shares>>

\* the impress.js download: its text on a 200, "" otherwise; then the document
export_script(outcome) ==
    /\ export.pc = "script"
    /\ export' = [export EXCEPT !.pc = "done",
                                !.impress_js = IF outcome = "200" THEN "text" ELSE ""]
    /\ UNCHANGED <<deck, step, bucket, task, thumbnail_tasks, req, response, served,
                   deck_ids, related, cleared, overlay, files, shares>>

NextExport ==
    \/ \E html \in Htmls : export_begin(html)
    \/ \E outcome \in Outcomes \cup {"none"}, size \in Sizes : export_replace_img(outcome, size)
    \/ \E outcome \in Outcomes : export_script(outcome)

SpecExport == Init /\ [][NextExport]_vars

\* ------------------------------------------------------------ overlay text
\* Strings are sequences of characters; "q" stands for the double quote.
TEXT_LIMIT == 50
TITLE_LIMIT == 30

\* a string of n times the character c
Run(c, n) == [i \in 1..n |-> c]

Text(chars) == [kind |-> "text", chars |-> chars]
Tag(chars) == [kind |-> "tag", chars |-> chars]

\* the pieces a step's content is written from: text, and the tags <b>, </b>
\* and <a t=">">
Pieces ==
    {Text(<<"a">>), Text(<<" ">>), Text(Run("a", TEXT_LIMIT - 1)),
     Tag(<<"<", "b", ">">>), Tag(<<"<", "/", "b", ">">>),
     Tag(<<"<", "a", " ", "t", "=", "q", ">", "q", ">">>)}

\* pieces in one content
MaxPieces == 3
Contents == UNION {[1..n -> Pieces] : n \in 1..MaxPieces}

DeckTitles == {Run("t", n) : n \in {0, TITLE_LIMIT - 1, TITLE_LIMIT, TITLE_LIMIT + 1}}

\* step.inner_html: the content as the string the client stores
RECURSIVE inner_html(_)
inner_html(content) ==
    IF content = <<>> THEN <<>> ELSE Head(content).chars \o inner_html(Tail(content))

\* where the match of '<[^<]+?>' that starts at s[i] = "<" ends (0: no match):
\* one or more characters other than "<", as few as possible, then ">"
match_end(s, i) ==
    LET ends == {j \in (i + 2)..Len(s) : s[j] = ">" /\ \A k \in (i + 1)..(j - 1) : s[k] # "<"}
    IN  IF ends = {} THEN 0 ELSE CHOOSE j \in ends : \A k \in ends : j <= k

\* re.sub('<[^<]+?>', '', s): the matches are found from left to right; a
\* match holds no "<" after its first character, so no match starts inside
\* another and every "<" that has a match end starts a match
re_sub(s) ==
    LET keep == {k \in 1..Len(s) :
                    ~\E i \in 1..k : s[i] = "<" /\ match_end(s, i) # 0 /\ k <= match_end(s, i)}
    IN  [n \in 1..Cardinality(keep) |->
            s[CHOOSE k \in keep : Cardinality({j \in keep : j < k}) = n - 1]]

\* str.strip()
strip(s) ==
    LET inked == {k \in 1..Len(s) : s[k] # " "}
    IN  IF inked = {} THEN <<>>
        ELSE SubSeq(s, CHOOSE k \in inked : \A j \in inked : k <= j,
                       CHOOSE k \in inked : \A j \in inked : j <= k)

\* s[:n]
slice(s, n) == SubSeq(s, 1, IF Len(s) < n THEN Len(s) ELSE n)

\* generate_deck_thumbnail is about to draw a deck titled deck_title whose
\* first step has this content
overlay_begin(content, deck_title) ==
    /\ overlay.pc = "idle"
    /\ overlay' = [NoOverlay EXCEPT !.pc = "extract", !.content = content,
                                    !.inner_html = inner_html(content), !.deck_title = deck_title]
    /\ UNCHANGED <<deck, step, bucket, task, thumbnail_tasks, req, response, served,
                   deck_ids, related, export, cleared, files, shares>>

\* text = re.sub(...); text = text.strip()[:50]
overlay_extract ==
    /\ overlay.pc = "extract"
    /\ overlay' = [overlay EXCEPT !.pc = "title",
                                  !.text = slice(strip(re_sub(overlay.inner_html)), TEXT_LIMIT)]
    /\ UNCHANGED <<deck, step, bucket, task, thumbnail_tasks, req, response, served,
                   deck_ids, related, export, cleared, files, shares>>

\* title = deck.title[:30]
overlay_title ==
    /\ overlay.pc = "title"
    /\ overlay' = [overlay EXCEPT !.pc = "draw", !.title = slice(overlay.deck_title, TITLE_LIMIT)]
    /\ UNCHANGED <<deck, step, bucket, task, thumbnail_tasks, req, response, served,
                   deck_ids, related, export, cleared, files, shares>>

NextOverlay ==
    \/ \E content \in Contents, deck_title \in DeckTitles : overlay_begin(content, deck_title)
    \/ overlay_extract
    \/ overlay_title

SpecOverlay == Init /\ [][NextOverlay]_vars

\* ------------------------------------------------------------ upload_files
MB == 1024 * 1024
QUOTA_MB == 100
MAX_FILE_SIZE == 5 * MB
ALLOWED_TYPES == {"image/png"}

\* an uploaded file: its content type and the length of its data in bytes
UploadFile(content_type, size) == [content_type |-> content_type, size |-> size]

\* files of the largest request: together they fill the quota
BulkFiles == (QUOTA_MB * MB) \div MAX_FILE_SIZE

\* upload requests served in one behaviour
MaxUploads == 2

\* the files of one request
Uploads ==
    {[i \in 1..BulkFiles |-> UploadFile("image/png", MAX_FILE_SIZE)],
     <<UploadFile("image/png", MAX_FILE_SIZE)>>,
     <<UploadFile("image/png", MAX_FILE_SIZE + 1)>>,
     <<UploadFile("image/png", 1), UploadFile("image/png", MAX_FILE_SIZE)>>,
     <<UploadFile("text/plain", 1)>>}

\* sum(f.size for f in files), in bytes
RECURSIVE total_size(_)
total_size(docs) == IF docs = <<>> THEN 0 ELSE Head(docs).size + total_size(Tail(docs))

\* get_user_storage_usage: the code's MB value times MB; a division by a
\* power of two and sums of such quotients are exact in floating point, so
\* the comparisons of the code are those of the byte counts
get_user_storage_usage == total_size(files)

\* the loop of upload_files turns to the next file: the content type check
upload_files_next(r, rest, used_mb) ==
    IF rest = <<>> THEN Finish(r, "ok")
    ELSE IF Head(rest).content_type \notin ALLOWED_TYPES THEN Finish(r, "400")
    ELSE req' = [req EXCEPT ![r].pc = "read", ![r].todo = rest, ![r].used_mb = used_mb]
             /\ UNCHANGED response

\* upload_files: Deck.get
upload_files_get(r, d, upload) ==
    /\ Accept(r)
    /\ IF deck[d] = NoDeck THEN Finish(r, "404")
              ELSE req' = [req EXCEPT ![r] = [Idle EXCEPT !.op = "upload_files", !.pc = "usage",
                                                          !.deck_id = d, !.todo = upload]]
                       /\ UNCHANGED response
    /\ UNCHANGED <<deck, step, bucket, task, thumbnail_tasks>>
    /\ UNCHANGED <<cleared, overlay, files, shares>>

\* used_mb = await get_user_storage_usage(...)
upload_files_usage(r) ==
    /\ req[r].op = "upload_files" /\ req[r].pc = "usage"
    /\ upload_files_next(r, req[r].todo, get_user_storage_usage)
    /\ UNCHANGED <<deck, step, bucket, task, thumbnail_tasks>>
    /\ UNCHANGED <<served, deck_ids, related, export, cleared, overlay, files, shares>>

\* the name upload_deck_file gives the object: a fresh uuid
uploaded_object_name(d) == <<"decks", d, ToString(Cardinality(bucket) + 1)>>

\* file.read() returns: the size check, the quota check, upload_deck_file
upload_files_read(r, stored) ==
    LET file == Head(req[r].todo)
    IN  /\ req[r].op = "upload_files" /\ req[r].pc = "read"
        /\ IF file.size > MAX_FILE_SIZE THEN Finish(r, "413") /\ UNCHANGED bucket
           ELSE IF req[r].used_mb + file.size > QUOTA_MB * MB
                THEN Finish(r, "quota_exceeded") /\ UNCHANGED bucket
           ELSE IF ~stored THEN Finish(r, "500") /\ UNCHANGED bucket
           ELSE /\ bucket' = bucket \cup {uploaded_object_name(req[r].deck_id)}
                /\ Continue(r, "insert_file")
        /\ UNCHANGED <<deck, step, task, thumbnail_tasks>>
        /\ UNCHANGED <<served, deck_ids, related, export, cleared, overlay, files, shares>>

\* file_model.insert(), used_mb += file_size_mb, the next file
upload_files_insert(r) ==
    LET file == Head(req[r].todo)
    IN  /\ req[r].op = "upload_files" /\ req[r].pc = "insert_file"
        /\ files' = Append(files, [deck_id |-> req[r].deck_id, size |-> file.size])
        /\ related' = [related EXCEPT !["file"] = @ \cup {req[r].deck_id}]
        /\ upload_files_next(r, Tail(req[r].todo), req[r].used_mb + file.size)
        /\ UNCHANGED <<deck, step, bucket, task, thumbnail_tasks>>
        /\ UNCHANGED <<served, deck_ids, export, cleared, overlay, shares>>

UploadStep(r) ==
    \/ \E d \in Decks, upload \in Uploads : upload_files_get(r, d, upload)
    \/ upload_files_usage(r)
    \/ \E stored \in BOOLEAN : upload_files_read(r, stored)
    \/ upload_files_insert(r)

\* upload requests of one user, two served at a time
NextFiles == \E r \in Reqs : UploadStep(r) /\ served' <= MaxUploads

SpecFiles == Init /\ [][NextFiles]_vars

\* ------------------------------------------------------------------ shares
\* the ids of the Share documents of deck d shared with user u
SharesOf(d, u) == {i \in ShareIds : shares[i].deck_id = d /\ shares[i].share_with = u}

\* an id share.insert() can give a new document
FreeShareId == \E i \in ShareIds : shares[i] = NoShare
NextShareId == CHOOSE i \in ShareIds : shares[i] = NoShare /\ \A j \in ShareIds : j < i => shares[j] # NoShare

\* the decks that have Share documents in the collection sh
shared_decks(sh) == {sh[i].deck_id : i \in ShareIds} \cap Decks

\* share_deck: Deck.get, the owner check, the check against sharing with
\* oneself
share_deck_get(r, d, user_id, access_level, owner) ==
    /\ Accept(r)
    /\ IF deck[d] = NoDeck THEN Finish(r, "404")
              ELSE IF ~owner THEN Finish(r, "403")
              ELSE IF user_id = "owner" THEN Finish(r, "400")
              ELSE req' = [req EXCEPT ![r] = [Idle EXCEPT !.op = "share_deck", !.pc = "get_user",
                                                          !.deck_id = d, !.share_with = user_id,
                                                          !.access_level = access_level]]
                       /\ UNCHANGED response
    /\ UNCHANGED <<deck, step, bucket, task, thumbnail_tasks>>
    /\ UNCHANGED <<cleared, overlay, files, shares>>

\* User.get(payload.user_id)
share_deck_user(r, found) ==
    /\ req[r].op = "share_deck" /\ req[r].pc = "get_user"
    /\ IF found THEN Continue(r, "find_share") ELSE Finish(r, "404")
    /\ UNCHANGED <<deck, step, bucket, task, thumbnail_tasks>>
    /\ UNCHANGED <<served, deck_ids, related, export, cleared, overlay, files, shares>>

\* existing_share = Share.find_one(...): one of the matching documents, or
\* None (0)
share_deck_find(r, share) ==
    LET found == SharesOf(req[r].deck_id, req[r].share_with)
    IN  /\ req[r].op = "share_deck" /\ req[r].pc = "find_share"
        /\ IF found = {} THEN share = 0 ELSE share \in found
        /\ req' = [req EXCEPT ![r].pc = "write_share", ![r].existing_share = share]
        /\ UNCHANGED response
        /\ UNCHANGED <<deck, step, bucket, task, thumbnail_tasks>>
        /\ UNCHANGED <<served, deck_ids, related, export, cleared, overlay, files, shares>>

\* existing_share.save() with the new access level (the whole document is
\* written, and inserted when it is not stored), or share.insert()
share_deck_write(r) ==
    LET doc == [deck_id |-> req[r].deck_id, share_with |-> req[r].share_with,
                access_level |-> req[r].access_level]
        id == IF req[r].existing_share # 0 THEN req[r].existing_share ELSE NextShareId
    IN  /\ req[r].op = "share_deck" /\ req[r].pc = "write_share"
        /\ req[r].existing_share = 0 => FreeShareId
        /\ shares' = [shares EXCEPT ![id] = doc]
        /\ related' = [related EXCEPT !["share"] = shared_decks(shares')]
        /\ Finish(r, "ok")
        /\ UNCHANGED <<deck, step, bucket, task, thumbnail_tasks>>
        /\ UNCHANGED <<served, deck_ids, export, cleared, overlay, files>>

\* revoke_share: Deck.get, the owner check
revoke_share_get(r, d, user_id, owner) ==
    /\ Accept(r)
    /\ IF deck[d] = NoDeck THEN Finish(r, "404")
              ELSE IF ~owner THEN Finish(r, "403")
              ELSE req' = [req EXCEPT ![r] = [Idle EXCEPT !.op = "revoke_share", !.pc = "find_share",
                                                          !.deck_id = d, !.share_with = user_id]]
                       /\ UNCHANGED response
    /\ UNCHANGED <<deck, step, bucket, task, thumbnail_tasks>>
    /\ UNCHANGED <<cleared, overlay, files, shares>>

\* share = Share.find_one(...)
revoke_share_find(r, share) ==
    LET found == SharesOf(req[r].deck_id, req[r].share_with)
    IN  /\ req[r].op = "revoke_share" /\ req[r].pc = "find_share"
        /\ IF found = {} THEN share = 0 ELSE share \in found
        /\ IF share = 0 THEN Finish(r, "404")
                  ELSE req' = [req EXCEPT ![r].pc = "delete_share", ![r].existing_share = share]
                           /\ UNCHANGED response
        /\ UNCHANGED <<deck, step, bucket, task, thumbnail_tasks>>
        /\ UNCHANGED <<served, deck_ids, related, export, cleared, overlay, files, shares>>

\* share.delete()
revoke_share_delete(r) ==
    /\ req[r].op = "revoke_share" /\ req[r].pc = "delete_share"
    /\ shares' = [shares EXCEPT ![req[r].existing_share] = DeletedShare]
    /\ related' = [related EXCEPT !["share"] = shared_decks(shares')]
    /\ Finish(r, "ok")
    /\ UNCHANGED <<deck, step, bucket, task, thumbnail_tasks>>
    /\ UNCHANGED <<served, deck_ids, export, cleared, overlay, files>>

ShareStep(r) ==
    \/ \E d \in Decks, u \in Users \cup {"owner"}, a \in AccessLevels, owner \in BOOLEAN :
          share_deck_get(r, d, u, a, owner)
    \/ \E found \in BOOLEAN : share_deck_user(r, found)
    \/ \E share \in ShareIds \cup {0} : share_deck_find(r, share)
    \/ share_deck_write(r)
    \/ \E d \in Decks, u \in Users, owner \in BOOLEAN : revoke_share_get(r, d, u, owner)
    \/ \E share \in ShareIds \cup {0} : revoke_share_find(r, share)
    \/ revoke_share_delete(r)

\* share requests served in one behaviour
MaxShareReqs == 3

\* share and revoke requests, two served at a time
NextShares == \E r \in Reqs : ShareStep(r) /\ served' <= MaxShareReqs

SpecShares == Init /\ [][NextShares]_vars

\* ------------------------------------------------------------ specification
\* the tasks of the event loop that are not request handlers
TaskStep ==
    \/ \E t \in TaskIds : regenerate_sleep(t)
    \/ \E t \in TaskIds, ok \in BOOLEAN : regenerate_generate(t, ok)

\* one step of the handler serving request r
RequestStep(r) ==
    \/ \E d \in Decks, a \in BOOLEAN : create_step_get(r, d, a)
    \/ create_step_insert(r)
    \/ \E landed \in BOOLEAN : create_step_save(r, landed)
    \/ \E ok \in BOOLEAN : create_step_generate(r, ok)
    \/ \E d \in Decks, a \in BOOLEAN : reorder_steps_get(r, d, a)
    \/ \E ids \in OrderPayloads, landed \in BOOLEAN : reorder_steps_save(r, ids, landed)
    \/ \E s \in StepIds : update_step_data_get(r, s)
    \/ \E a \in BOOLEAN : update_step_data_deck(r, a)
    \/ \E landed \in BOOLEAN : update_step_data_save(r, landed)
    \/ \E s \in StepIds : delete_step_get(r, s)
    \/ \E a \in BOOLEAN : delete_step_deck(r, a)
    \/ \E landed \in BOOLEAN : delete_step_save(r, landed)
    \/ delete_step_clear(r)
    \/ delete_step_delete(r)

\* requests arrive one after the other; the tasks they leave behind run
\* concurrently with the later requests
Next == TaskStep \/ RequestStep("r1")

Spec == Init /\ [][Next]_vars

\* the event loop wakes a task whose sleep is over
SpecFair == Spec /\ \A t \in TaskIds : WF_vars(regenerate_sleep(t))

\* two requests are served at a time
NextConc == TaskStep \/ \E r \in Reqs : RequestStep(r) /\ served' <= MaxConcReqs

SpecConc == Init /\ [][NextConc]_vars

\* one step of the handler serving deck request r
DeckStep(r) ==
    \/ \E s \in StepIds : duplicate_step_get(r, s)
    \/ \E a \in BOOLEAN : duplicate_step_deck(r, a)
    \/ duplicate_step_insert(r)
    \/ duplicate_step_save(r)
    \/ \E d \in Decks, a \in BOOLEAN : update_deck_get(r, d, a)
    \/ \E has_order \in BOOLEAN, ids \in OrderPayloads : update_deck_save(r, has_order, ids)
    \/ \E d \in Decks, a \in BOOLEAN : delete_deck_get(r, d, a)
    \/ delete_deck_steps(r)
    \/ delete_deck_comments(r)
    \/ delete_deck_files(r)
    \/ delete_deck_file(r)
    \/ delete_deck_shares(r)
    \/ delete_deck_delete(r)
    \/ \E d \in Decks : clone_deck_get(r, d)
    \/ clone_deck_insert(r)
    \/ clone_deck_steps(r)
    \/ clone_deck_step(r)
    \/ clone_deck_save(r)

\* step and deck requests, two served at a time
NextDecks ==
    \/ TaskStep
    \/ \E r \in Reqs : (RequestStep(r) \/ DeckStep(r)) /\ served' <= MaxDeckReqs

SpecDecks == Init /\ [][NextDecks]_vars

TypeOK ==
    /\ \A d \in Decks : deck[d].thumbnail_url \in {"None", "", "url", "missing"}
    /\ \A s \in StepIds : step[s] \in Decks \cup {"unused", "deleted"}
    /\ \A d \in Decks : thumbnail_tasks[d] \in TaskIds \cup {0}
    /\ served \in 0..MaxReqs

\* ------------------------------------------------------------------ claims
TasksOf(d) == {t \in TaskIds : task[t].deck_id = d}

\* the task called the generator
Ran(t) == task[t].pc \in RanPcs

\* a later schedule call was made for the deck of t
Superseded(t) == \E u \in TasksOf(task[t].deck_id) : u > t

\* the schedule calls up to the one that created t, each of which found the
\* task of the call before it still in its delay
Burst(t) ==
    {u \in TasksOf(task[t].deck_id) :
        u <= t /\ \A v \in TasksOf(task[t].deck_id) : (u < v /\ v <= t) => task[v].prev = "sleep"}

\* t is the last call of its burst: no later call found t in its delay
LastOfBurst(t) ==
    \A v \in TasksOf(task[t].deck_id) : v > t => \E w \in TasksOf(task[t].deck_id) : t < w /\ w <= v /\ task[w].prev # "sleep"

\* C1: of K >= 2 schedule calls for one deck, each made while the task of the
\* previous call was still in its delay, only the task of the last call
\* invokes the generator, once, after its own delay; the others never do.
C1_BurstRunsOnce ==
    \A t \in TaskIds :
        (task[t].pc # "none" /\ LastOfBurst(t) /\ Cardinality(Burst(t)) >= 2)
            => {u \in Burst(t) : Ran(u)} = (IF task[t].pc = "sleep" THEN {} ELSE {t})

C1_Witness ==
    \E t \in TaskIds : task[t].pc = "done" /\ task[t].prev = "sleep" /\ ~Superseded(t)

\* C2: a schedule call never interrupts a task that has left its delay and is
\* inside generate_deck_thumbnail; only sleeping tasks are stopped.
C2_NoRunInterrupted == \A t \in TaskIds : task[t].pc # "interrupted"

\* C3: for every deck at most one task is waiting in its debounce delay.
C3_OneTimerPerDeck ==
    \A d \in Decks : Cardinality({t \in TasksOf(d) : task[t].pc = "sleep"}) <= 1

C3_Witness ==
    \E t \in TaskIds, r \in Reqs :
        /\ task[t].pc = "sleep" /\ task[t].prev = "sleep"
        /\ req[r].op = "reorder_steps" /\ req[r].pc = "save_deck"
        /\ req[r].deck_id = task[t].deck_id

\* C4: a task created by schedule eventually invokes the generator unless a
\* later schedule call for its deck follows, and the generator loads the deck
\* that is stored when it runs, not one captured by the schedule call.
C4_ReadsAtFire ==
    \A t \in TaskIds :
        /\ task[t].pc = "sleep" => task'[t].deck = NoDeck
        /\ (task[t].pc = "get_deck" /\ task'[t].pc = "find_steps") => task'[t].deck = deck[task[t].deck_id]

C4_LatestEventuallyRuns ==
    /\ \A t \in TaskIds : (task[t].pc # "none") ~> (Ran(t) \/ Superseded(t))
    /\ [][C4_ReadsAtFire]_vars

C4_Witness ==
    \E t \in TaskIds :
        task[t].pc = "find_steps" /\ ~Superseded(t) /\ task[t].deck = deck[task[t].deck_id]
            /\ task[t].deck.order # <<>>

\* C5: no step-mutating request fails because the thumbnail generation it
\* triggered failed.
C5_RequestNeverFails == response # "500"

\* a task's run of the generator ends in this step after a failure in it:
\* an exception, or get_presigned_url's "" for a failed presign
FailedRunEnds(t) ==
    /\ task[t].pc \in GenPcs
    /\ \/ task'[t].pc = "failed"
       \/ task[t].pc = "save" /\ task[t].deck.thumbnail_url = "" /\ task'[t].pc = "done"

\* C6: a regeneration run that fails leaves the deck's stored thumbnail_url
\* as it was.
C6_FailedRunKeepsThumbnail ==
    [][\A t \in TaskIds :
          FailedRunEnds(t) =>
              deck'[task[t].deck_id].thumbnail_url = deck[task[t].deck_id].thumbnail_url]_vars

\* C7: the pending-task table holds entries only for tasks that have not
\* finished.
C7_TableOnlyUnfinished ==
    \A d \in Decks : thumbnail_tasks[d] # 0 => task[thumbnail_tasks[d]].pc \in PendingPcs

\* a run of the generator returns no result in this step because no step of
\* the deck resolves
NoStepsRun(x, y) == x.pc = "find_steps" /\ y.pc \notin {"find_steps", "upload", "failed", "interrupted"}

\* C8: a generation run for a deck with zero steps returns no result and
\* leaves the deck's thumbnail_url None.
C8_NoStepsClearsThumbnail ==
    [][/\ \A t \in TaskIds :
              NoStepsRun(task[t], task'[t]) => deck'[task[t].deck_id].thumbnail_url = "None"
       /\ \A r \in Reqs :
              (NoStepsRun(req[r], req'[r]) /\ response' # "500")
                  => deck'[req[r].deck_id].thumbnail_url = "None"]_vars

\* delete_step(s) returns in this step
DeleteStepCompletes(r) ==
    req[r].op = "delete_step" /\ req[r].pc = "delete" /\ req'[r].pc = "idle"

\* C9: after delete_step of the only step of a deck, thumbnail_url is None
\* and order does not list the step.
C9_DeleteOnlyStep ==
    [][\A r \in Reqs :
          (DeleteStepCompletes(r) /\ StepsOf(req[r].deck_id) = {req[r].step_id})
              => /\ deck'[req[r].deck_id].thumbnail_url = "None"
                 /\ ~InOrder(deck'[req[r].deck_id].order, req[r].step_id)]_vars

\* C10: after any delete_step(s), s is not in order, and thumbnail_url is
\* None when no step of the deck remains.
C10_DeleteAnyStep ==
    [][\A r \in Reqs :
          DeleteStepCompletes(r)
              => /\ ~InOrder(deck'[req[r].deck_id].order, req[r].step_id)
                 /\ (\A s \in StepIds : step'[s] # req[r].deck_id)
                        => deck'[req[r].deck_id].thumbnail_url = "None"]_vars

\* a handler that always calls schedule_thumbnail_regeneration returns
ScheduleCalled(r) ==
    /\ req[r].op \in {"reorder_steps", "update_step_data"}
    /\ req[r].pc \in {"save_deck", "save_step"}
    /\ req'[r].pc = "idle"

\* C13: a schedule call that finds under the deck's key a task that is running
\* or has ended raises nothing, leaves an ended task as it is, and puts a new
\* sleeping task under the key; a sleeping task that wakes calls the generator.
C13_RescheduleAfterRun ==
    [][/\ \A r \in Reqs :
              LET d == req[r].deck_id
                  old == thumbnail_tasks[d]
                  new == thumbnail_tasks'[d]
              IN  (ScheduleCalled(r) /\ old # 0 /\ task[old].pc # "sleep")
                      => /\ response' = "ok"
                         /\ new # 0 /\ new # old
                         /\ task[new].pc = "none" /\ task'[new].pc = "sleep"
                         /\ task[old].pc \notin PendingPcs => task'[old] = task[old]
       /\ \A t \in TaskIds :
              (task[t].pc = "sleep" /\ task'[t].pc # "sleep")
                  => task'[t].pc \in {"get_deck", "cancelled"}]_vars

C13_Witness ==
    \E t \in TaskIds : task[t].prev = "ended" /\ task[t].pc = "find_steps"

\* the positions of order whose entry is a stored step of deck d
ValidEntries(order, d) == {i \in 1..Len(order) : step[order[i]] = d}

\* frame x of the generator leaves its Step.find as frame y
FindStepsRun(x, y) == x.pc = "find_steps" /\ y.pc \notin {"find_steps", "interrupted"}

\* the run rendered the first entry of its order that is a step of deck d,
\* and gave no result only when there is no such entry
RendersFirstValid(x, y, d) ==
    LET valid == ValidEntries(x.deck.order, d)
    IN  /\ valid = {} => y.pc \in {"done", "idle"}
        /\ valid # {} => y.pc \in {"upload", "failed", "idle"}
        /\ y.pc = "upload" =>
              \E i \in valid : y.first = x.deck.order[i] /\ \A j \in valid : i <= j

\* C15: the generator skips the entries of order that match no step of the
\* deck and renders the first entry that does; it returns no result only when
\* no entry matches.
C15_SkipsStaleEntries ==
    [][/\ \A t \in TaskIds :
              FindStepsRun(task[t], task'[t]) => RendersFirstValid(task[t], task'[t], task[t].deck_id)
       /\ \A r \in Reqs :
              FindStepsRun(req[r], req'[r])
                  => /\ RendersFirstValid(req[r], req'[r], req[r].deck_id)
                     /\ (req'[r].pc = "idle" /\ ValidEntries(req[r].deck.order, req[r].deck_id) = {})
                            => response' = "ok"]_vars

C15_Witness ==
    \E t \in TaskIds :
        /\ task[t].pc = "upload"
        /\ task[t].deck.order[1] # task[t].first
        /\ step[task[t].deck.order[1]] # task[t].deck_id

\* C16: the object store holds at most one thumbnail object per deck, and it
\* is the one named decks/<deck_id>/thumbnail.jpg.
C16_OneObjectPerDeck ==
    /\ bucket \subseteq {<<"decks", d, "thumbnail.jpg">> : d \in Decks}
    /\ \A d \in Decks : Cardinality({k \in bucket : k[2] = d}) <= 1

C16_Witness ==
    \E t \in TaskIds :
        /\ task[t].pc = "presign"
        /\ deck[task[t].deck_id].thumbnail_url = "url"
        /\ bucket # {}

\* C11: every entry of a deck's order is the id of a step of that deck, stored
\* or deleted.
C11_OrderListsOwnSteps ==
    \A d \in Decks :
        \A i \in 1..Len(deck[d].order) : step[deck[d].order[i]] \in {d, "deleted"}

\* a task of deck d is created, fires, moves on or ends in this step
TaskActs(d) ==
    \E t \in TaskIds : task'[t] # task[t] /\ d \in {task[t].deck_id, task'[t].deck_id}

\* C12: a step in which a task of one deck is created, cancelled, fires or
\* finishes leaves the table entry, the tasks and the document of every other
\* deck unchanged.
C12_OtherDeckUntouched ==
    [][\A d \in Decks, e \in Decks :
          (d # e /\ TaskActs(d))
              => /\ thumbnail_tasks'[e] = thumbnail_tasks[e]
                 /\ deck'[e] = deck[e]
                 /\ \A u \in TaskIds : task[u].deck_id = e => task'[u] = task[u]]_vars

C12_Witness ==
    \E t \in TaskIds, u \in TaskIds :
        /\ u < t /\ task[t].deck_id # task[u].deck_id
        /\ task[t].pc = "done"
        /\ task[u].pc = "sleep" /\ thumbnail_tasks[task[u].deck_id] = u

\* task t is at the generator's Deck.get and the deck is not stored
FiresWithoutDeck(t) == task[t].pc = "get_deck" /\ deck[task[t].deck_id] = NoDeck

\* C14: a regeneration that fires when its deck is no longer stored returns
\* no result without raising and writes neither to the object store nor to
\* the document store.
C14_DeletedDeckNoWrites ==
    [][\A t \in TaskIds :
          (FiresWithoutDeck(t) /\ task'[t] # task[t] /\ task'[t].pc # "interrupted")
              => /\ task'[t].pc = "done"
                 /\ bucket' = bucket
                 /\ deck' = deck /\ step' = step]_vars

C14_Witness ==
    \E t \in TaskIds :
        FiresWithoutDeck(t) /\ task[t].deck_id \in deck_ids /\ response = "ok"

\* delete_deck(d) returns success in this step
DeleteDeckCompletes(r) ==
    req[r].op = "delete_deck" /\ req[r].pc = "delete_deck" /\ req'[r].pc = "idle"

\* C17: when delete_deck(d) returns success the store holds no deck d and no
\* step, comment, file record or share of d.
C17_DeleteDeckCascades ==
    [][\A r \in Reqs :
          DeleteDeckCompletes(r)
              => /\ deck'[req[r].deck_id] = NoDeck
                 /\ \A s \in StepIds : step'[s] # req[r].deck_id
                 /\ \A k \in RelatedKinds : req[r].deck_id \notin related'[k]]_vars

\* the exported text of the k-th image of the step: its tag or data reference
\* and the comments that follow it
ImagePiece(k) ==
    LET text == export.result
        tags == {i \in 1..Len(text) : text[i].kind # "comment"}
        start(n) == CHOOSE i \in tags : Cardinality({j \in tags : j <= i}) = n
        end == IF k = Cardinality(tags) THEN Len(text) ELSE start(k + 1) - 1
    IN  SubSeq(text, start(k), end)

\* the export has returned its document
Exported == export.pc = "done"

\* the fetch of the k-th image did not give a 200
FetchFailed(k) == export.fetched[k].outcome \in Outcomes \ {"200"}

\* C18: in the exported document an asset-store image fetched with a 200 is
\* an inline data reference exactly when it is smaller than 102400 bytes, and
\* otherwise is its original tag followed by the copy-manually comment.
C18_InlineBelow100KB ==
    Exported =>
        \A k \in 1..Len(export.html) :
            LET src == export.html[k]
                size == export.fetched[k].size
            IN  (src[1] = AssetHost /\ export.fetched[k].outcome = "200")
                    => /\ ImagePiece(k) = <<Data(src)>> <=> size < 102400
                       /\ size >= 102400 => ImagePiece(k) = <<Img(src), LargeComment>>

\* C19: an image whose URL is not an asset-store URL is not fetched and its
\* tag is in the exported document unmodified.
C19_ForeignImageUntouched ==
    Exported =>
        \A k \in 1..Len(export.html) :
            export.html[k][1] # AssetHost
                => /\ export.fetched[k].outcome = "none"
                   /\ ImagePiece(k) = <<Img(export.html[k])>>

\* C20: whatever the fetches give, each image is fetched at most once, the
\* tag of an image whose fetch failed is in the document as it was, and every
\* other image is in the document as its own fetch decides.
C20_FailedFetchIsolated ==
    Exported =>
        /\ Len(export.fetched) = Len(export.html)
        /\ \A k \in 1..Len(export.html) :
              LET src == export.html[k]
              IN  IF FetchFailed(k)
                  THEN ImagePiece(k) = <<Img(src)>>
                  ELSE ImagePiece(k) = replace_img(src, export.fetched[k].outcome, export.fetched[k].size)

\* frame x of the generator completes its deck.save() as frame y
GeneratorSaves(x, y) == x.pc = "save" /\ y.pc \in {"done", "idle"}

\* C22: the generator's save changes no field of the stored deck other than
\* thumbnail_url: the order stored before the save is the order stored after.
C22_SaveKeepsOrder ==
    [][/\ \A t \in TaskIds :
              GeneratorSaves(task[t], task'[t])
                  => deck'[task[t].deck_id].order = deck[task[t].deck_id].order
       /\ \A r \in Reqs :
              (req[r].op = "create_step" /\ GeneratorSaves(req[r], req'[r]) /\ response' = "ok")
                  => deck'[req[r].deck_id].order = deck[req[r].deck_id].order]_vars

\* delete_deck(d) has completed: the id was handed out and no document has it
Deleted(d) == d \in deck_ids /\ deck[d] = NoDeck

\* C25: once delete_deck(d) has completed, no document d is stored again and
\* no thumbnail object is written for d.
C25_DeletedDeckStaysDeleted ==
    [][\A d \in Decks :
          Deleted(d)
              => /\ deck'[d] = NoDeck
                 /\ <<"decks", d, "thumbnail.jpg">> \in bucket'
                        => <<"decks", d, "thumbnail.jpg">> \in bucket]_vars

\* request r completes a save that changes what the thumbnail of deck d is
\* made from: the deck's order
ChangesOrder(r, d) ==
    /\ req[r].pc \in {"save_deck", "save_clone"} /\ req'[r].pc = "idle"
    /\ d = IF req[r].op = "clone_deck" THEN req[r].new_deck ELSE req[r].deck_id
    /\ deck'[d].order # deck[d].order
    /\ deck'[d].order # <<>>

\* C26: every request that changes the inputs of a deck's thumbnail is
\* followed by a regeneration for the deck: when it returns, a task of the
\* deck is waiting in the table.
C26_ChangeSchedulesRegeneration ==
    [][\A r \in Reqs, d \in Decks :
          ChangesOrder(r, d)
              => /\ thumbnail_tasks'[d] # 0
                 /\ task'[thumbnail_tasks'[d]].pc = "sleep"]_vars

\* task t returns from the generator in this step, and its del runs
TaskFinishes(t) == task[t].pc \in GenPcs /\ task'[t].pc = "done"

\* C27: the table entry a finishing task deletes is its own, and every task
\* waiting in its delay is the table's entry of its deck.
C27_DeletesOwnEntry ==
    [][/\ \A t \in TaskIds :
              (TaskFinishes(t) /\ thumbnail_tasks[task[t].deck_id] # 0)
                  => thumbnail_tasks[task[t].deck_id] = t
       /\ \A t \in TaskIds :
              task'[t].pc = "sleep" => thumbnail_tasks'[task'[t].deck_id] = t]_vars

C27_Witness ==
    \E t \in TaskIds, u \in TaskIds :
        /\ u < t /\ task[u].deck_id = task[t].deck_id
        /\ task[u].pc = "interrupted"
        /\ task[t].pc = "done" /\ thumbnail_tasks[task[t].deck_id] = 0

\* the executions of generate_deck_thumbnail for deck d that are in progress
RunsOf(d) ==
    Cardinality({t \in TaskIds : task[t].deck_id = d /\ task[t].pc \in GenPcs})
  + Cardinality({r \in Reqs : req[r].op = "create_step" /\ req[r].deck_id = d /\ req[r].pc \in GenPcs})

\* C28: at most one execution of generate_deck_thumbnail per deck is in
\* progress, inline calls of create_step included.
C28_OneRunPerDeck == \A d \in Decks : RunsOf(d) <= 1


\* --------------------------------------------------- appends to one deck
\* create_step and duplicate_step requests, two served at a time
AppendStep(r) ==
    \/ \E d \in Decks, a \in BOOLEAN : create_step_get(r, d, a)
    \/ create_step_insert(r)
    \/ \E landed \in BOOLEAN : create_step_save(r, landed)
    \/ \E ok \in BOOLEAN : create_step_generate(r, ok)
    \/ \E s \in StepIds : duplicate_step_get(r, s)
    \/ \E a \in BOOLEAN : duplicate_step_deck(r, a)
    \/ duplicate_step_insert(r)
    \/ duplicate_step_save(r)

NextAppend == TaskStep \/ \E r \in Reqs : AppendStep(r)

SpecAppend == Init /\ [][NextAppend]_vars

\* the number of times step s is listed in seq
Listed(seq, s) == Cardinality({i \in 1..Len(seq) : seq[i] = s})

\* C23: once the create_step and duplicate_step requests on a deck have all
\* completed, every step they inserted is listed exactly once in the deck's
\* order.
C23_AppendsAllListed ==
    (\A r \in Reqs : req[r].pc = "idle")
        => \A d \in Decks : \A s \in StepsOf(d) : Listed(deck[d].order, s) = 1


\* C24: once delete_step has cleared the thumbnail of a deck whose last step
\* was removed, the deck's thumbnail_url stays None until a step is inserted
\* in the deck again.
C24_ClearedStaysNone ==
    \A d \in cleared : deck[d] # NoDeck => deck[d].thumbnail_url = "None"


\* the text of a content: the characters of its text pieces, in order
RECURSIVE plain_text(_)
plain_text(content) ==
    IF content = <<>> THEN <<>>
    ELSE (IF Head(content).kind = "text" THEN Head(content).chars ELSE <<>>)
             \o plain_text(Tail(content))

\* C21: the overlay text is the content with every tag removed and the
\* remaining text concatenated in order, trimmed and cut to at most 50
\* characters; the drawn title is the deck title cut to at most 30 characters.
C21_OverlayText ==
    /\ overlay.pc \in {"title", "draw"}
          => overlay.text = slice(strip(plain_text(overlay.content)), TEXT_LIMIT)
    /\ overlay.pc = "draw"
          => overlay.title = slice(overlay.deck_title, TITLE_LIMIT) /\ Len(overlay.title) <= TITLE_LIMIT


\* C29: the sizes of a user's stored file documents never sum to more than
\* the 100 MB quota, and no stored file is larger than 5 MB.
C29_QuotaKept ==
    /\ total_size(files) <= QUOTA_MB * MB
    /\ \A i \in 1..Len(files) : files[i].size <= MAX_FILE_SIZE


\* C30: at most one Share document exists for a deck and a user it is shared
\* with.
C30_OneSharePerPair ==
    \A d \in Decks, u \in Users : Cardinality(SharesOf(d, u)) <= 1

====
